---- MODULE Spec2Model ----
(***************************************************************************)
(* Model of chem-si-helper: the HRMS validator (hrmsComponent.ts) and the  *)
(* 1H NMR peak parser and corrector (h1Component.ts).                      *)
(*                                                                         *)
(* Conventions.                                                            *)
(*  - A string is a sequence of characters; a character is a TLA+ string.  *)
(*    Mass strings are spelled out digit by digit; text the code never     *)
(*    looks into (a formula, an HTML tag, a message) is one character.     *)
(*  - Numbers are exact decimals: a mass is an integer count of 10^-6 Da   *)
(*    ("micro"), a coupling constant an integer count of 10^-3 Hz, a       *)
(*    chemical shift an integer count of 10^-2 ppm.  Of the IEEE-754       *)
(*    rounding error of the JavaScript arithmetic only that of the product *)
(*    1000 * J in isJValid is modelled (InexactProducts).                  *)
(*  - undefined / null / NaN of the JavaScript code are the value Null.    *)
(***************************************************************************)
EXTENDS Integers, Sequences, FiniteSets, TLC

VARIABLES
    pc,          \* position of the handler that is running
    isStrict,    \* #strict checkbox, read by reset()
    language,    \* LanguageService.getLanguage(): 0 English, 1 Chinese
    inputLines,  \* #input value, split on line breaks: the HRMS lines
    hrmsObjs,    \* hrmsRenderObj of handle(): the parsed records, in order
    willHighlightData, \* HrmsComponent.willHighlightData
    hrmsResult,  \* what HrmsComponent.handle returns
    peakToken,   \* a peak token of the #input value, as handleNMRData cuts it
    metaFreq,    \* the frequency of the token's metadata
    generalMultiplet, \* #generalMultiplet checkbox
    autoFixJ,    \* #autoFixJ checkbox
    peakDataObj, \* what parsePeakData returns for the token
    fixedPeakDataObj, \* what fixPeakData returns for peakDataObj
    jInput,      \* the J of a call of isJValid and roundJ, 0.001 Hz
    jFreq,       \* the freq of the call
    jValid,      \* what isJValid(J, freq) returns
    jRounded,    \* what roundJ(J, freq) returns, 0.001 Hz
    autoCopy,    \* #autoCopy checkbox
    output,      \* #output innerHTML
    clipboard,   \* what copyFormattedStrToClipboard last copied
    leftScrollFlag,     \* onScrollSync: the next scroll event of the output pane is an echo
    rightScrollFlag,    \* onScrollSync: the next scroll event of #input is an echo
    inputScrollTop,     \* $inputScrollbarHolder.scrollTop
    outputScrollTop,    \* $outputScrollbarHolder.scrollTop
    inputScrollHeight,  \* $inputScrollbarHolder.scrollHeight
    outputScrollHeight, \* $outputScrollbarHolder.scrollHeight
    inputScrollEvent,   \* the scroll event queued on #input: what raised it
    outputScrollEvent   \* the scroll event queued on the output pane

hrmsVars == <<inputLines, hrmsObjs, willHighlightData, hrmsResult>>
h1Vars == <<peakToken, metaFreq, generalMultiplet, autoFixJ, peakDataObj, fixedPeakDataObj>>
roundVars == <<jInput, jFreq, jValid, jRounded>>
appVars == <<autoCopy, output, clipboard>>
scrollVars == <<leftScrollFlag, rightScrollFlag, inputScrollTop, outputScrollTop,
                inputScrollHeight, outputScrollHeight, inputScrollEvent, outputScrollEvent>>
restVars == <<roundVars, appVars, scrollVars>>
vars == <<pc, isStrict, language, hrmsVars, h1Vars, restVars>>

Null == "null"

(***************************************************************************)
(* Strings                                                                 *)
(***************************************************************************)
Digits == <<"0", "1", "2", "3", "4", "5", "6", "7", "8", "9">>

DigitChar(d) == Digits[d + 1]

DigitVal(c) == CHOOSE d \in 0..9 : Digits[d + 1] = c

RECURSIVE Pow10(_)
Pow10(k) == IF k = 0 THEN 1 ELSE 10 * Pow10(k - 1)

RECURSIVE NatToStr(_)
NatToStr(n) ==
    IF n < 10 THEN <<DigitChar(n)>>
    ELSE NatToStr(n \div 10) \o <<DigitChar(n % 10)>>

\* the w low decimal digits of n, zero padded
RECURSIVE PadDigits(_, _)
PadDigits(n, w) ==
    IF w = 0 THEN <<>>
    ELSE PadDigits(n \div 10, w - 1) \o <<DigitChar(n % 10)>>

\* n / 10^dec written with exactly dec decimals, dec >= 1
Fixed(n, dec) ==
    NatToStr(n \div Pow10(dec)) \o <<".">> \o PadDigits(n % Pow10(dec), dec)

RECURSIVE IntOfDigits(_)
IntOfDigits(s) ==
    IF s = <<>> THEN 0
    ELSE 10 * IntOfDigits(SubSeq(s, 1, Len(s) - 1)) + DigitVal(s[Len(s)])

\* String.prototype.indexOf, 1-based; 0 when pat does not occur
IndexOf(s, pat) ==
    LET hits == {i \in 1..(Len(s) - Len(pat) + 1) :
                    SubSeq(s, i, i + Len(pat) - 1) = pat}
    IN IF hits = {} THEN 0 ELSE CHOOSE i \in hits : \A j \in hits : i <= j

\* lodash includes(string, substring)
Includes(s, pat) == IndexOf(s, pat) # 0

\* lodash replace(string, pattern: string, replacement): the first occurrence only
Replace(s, pat, rep) ==
    LET i == IndexOf(s, pat)
    IN IF i = 0 THEN s
       ELSE SubSeq(s, 1, i - 1) \o rep \o SubSeq(s, i + Len(pat), Len(s))

\* 'a.b'.split('.')[1]: the text after the first point
Fraction(s) ==
    LET i == IndexOf(s, <<".">>)
    IN SubSeq(s, i + 1, Len(s))

(***************************************************************************)
(* Messages and highlighting                                               *)
(***************************************************************************)
English == 0
Chinese == 1

\* HrmsComponent.errMsg; the Chinese texts are transliterated tags
errMsg == [
    dataErr    |-> <<"HRMS Data not valid.", "zh:dataErr">>,
    formatErr  |-> <<"Format not valid.", "zh:formatErr">>,
    decimalErr |-> <<"Mass value should be rounded to two decimal places", "zh:decimalErr">>,
    calcErr    |-> <<"Data error, calculated value: ", "zh:calcErr">>,
    foundErr   |-> <<"Deviation should be less than 0.003", "zh:foundErr">> ]

\* errMsg.<key>[currentLanguage], as a string of one character
Msg(key, lang) == <<errMsg[key][lang + 1]>>

\* utils.highlightData(str, HighlightType.Danger, msg): str wrapped in a span
\* that carries the class and the tooltip message
highlightDanger(str, msg) ==
    <<"<span class=danger data-tooltip=">> \o msg \o <<">">> \o str \o <<"</span>">>

\* utils.highlightData(str, HighlightType.Success): no tooltip
highlightSuccess(str) ==
    <<"<span class=success>">> \o str \o <<"</span>">>

\* an argument left out of a call
Undefined == <<Null>>

\* HrmsComponent.getDangerStr; strToReplace = Undefined is the call without it
getDangerStr(data, msg, strToReplace) ==
    IF strToReplace = Undefined THEN highlightDanger(data, msg)
    ELSE Replace(data, strToReplace, highlightDanger(strToReplace, msg))

\* HrmsComponent.dangerOnCondition
dangerOnCondition(highlight, data, msg, strToReplace) ==
    IF highlight THEN getDangerStr(data, msg, strToReplace) ELSE data

(***************************************************************************)
(* Formula engine (utils/formula, utils/element)                           *)
(***************************************************************************)
\* monoisotopic masses, micro-Da
ElementMass == [H |-> 1007825, C |-> 12000000, N |-> 14003074, O |-> 15994915]

\* the formulas of the model, tokenized into ElementCountPairs
FormulaPairs == [
    CH4O  |-> <<[element |-> "C", count |-> 1], [element |-> "H", count |-> 4],
                [element |-> "O", count |-> 1]>>,
    CH2O3 |-> <<[element |-> "C", count |-> 1], [element |-> "H", count |-> 2],
                [element |-> "O", count |-> 3]>>,
    C2H7N |-> <<[element |-> "C", count |-> 2], [element |-> "H", count |-> 7],
                [element |-> "N", count |-> 1]>> ]

\* Formula.isValid: the text tokenizes completely into known elements
FormulaIsValid(formula) == formula \in DOMAIN FormulaPairs

RECURSIVE SumPairs(_)
SumPairs(pairs) ==
    IF pairs = <<>> THEN 0
    ELSE ElementMass[pairs[1].element] * pairs[1].count + SumPairs(Tail(pairs))

\* Formula.getExactMass, micro-Da
FormulaExactMass(formula) == SumPairs(FormulaPairs[formula])

\* Formula.toString
FormulaToString(formula) == <<formula>>

\* Formula.toFormattedString: the counts marked for subscript rendering
FormulaToFormattedString(formula) == <<"<formatted>", formula, "</formatted>">>

(***************************************************************************)
(* HrmsComponent.parseHrmsData                                             *)
(***************************************************************************)
\* lodash round(x, precision) of a non-negative micro value: Math.round of the
\* shifted number, which rounds a half up
round(x, precision) ==
    LET q == Pow10(6 - precision)
    IN ((x + q \div 2) \div q) * q

massOfElectron == 549

getIonMass(ion) == IF ion = "" THEN 0 ELSE 0 - massOfElectron

sourceList == { <<"E","S","I">>, <<"A","P","C","I">>, <<"E","I">>,
                <<"M","A","L","D","I">>, <<"C","I">>, <<"F","D">>, <<"F","I">>,
                <<"F","A","B">>, <<"A","P","P","I">>, <<"T","S">>, <<"P","B">>,
                <<"D","A","R","T">> }

ionList == {"", "H", "Na", "K", "Cs"}

\* JavaScript a || b on strings and undefined: a when it is a non-empty string
Or(a, b) == IF a # Null /\ a # "" THEN a ELSE b

\* the structured record parseHrmsData returns
HrmsData(data, source, ion, formula, calcdMass, exactMass, foundMass) ==
    [kind |-> "data", str |-> <<>>, data |-> data, source |-> source, ion |-> ion,
     formula |-> formula, calcdMass |-> calcdMass,
     exactMass |-> exactMass, foundMass |-> foundMass]

\* the pre-formatted danger string parseHrmsData returns
DangerStr(str) == [kind |-> "str", str |-> str]

\* mutant: one rounding, straight to 4 decimals
calcdMassOfRoundedOnce(formula, ion) ==
    round(FormulaExactMass(formula) + getIonMass(ion), 4)

\* lines 304-307: the calculated mass, micro-Da
calcdMassOf(formula, ion) ==
    round(round(FormulaExactMass(formula) + getIonMass(ion), 5), 4)

\* a verdict of one validation stage: passed, or the danger string to return
Pass == [ok |-> TRUE, str |-> <<>>]
Fail(str) == [ok |-> FALSE, str |-> str]

\* mutant: the language index taken for the strict flag
ionCheckStrictByLanguage(hrmsData, ionMatch, strict, lang) ==
    IF ~ionMatch.matched
    THEN Fail(getDangerStr(hrmsData, Msg("dataErr", lang), Undefined))
    ELSE LET ionPlusSign == Or(ionMatch.g1, ionMatch.g3)
             ion == Or(ionMatch.g2, ionMatch.g4)
         IN IF ion = ""
            THEN IF ionPlusSign # ""
                 THEN Fail(getDangerStr(hrmsData, Msg("dataErr", lang), ionMatch.all))
                 ELSE Pass
            ELSE IF ion \in ionList
            THEN IF lang = Chinese /\ ionPlusSign # " + "
                 THEN Fail(getDangerStr(hrmsData, Msg("formatErr", lang), ionMatch.all))
                 ELSE Pass
            ELSE Fail(getDangerStr(hrmsData, Msg("dataErr", lang), ionMatch.all))

\* mutant: the separator is not looked at in strict mode
ionCheckAnySeparator(hrmsData, ionMatch, strict, lang) ==
    IF ~ionMatch.matched
    THEN Fail(getDangerStr(hrmsData, Msg("dataErr", lang), Undefined))
    ELSE LET ionPlusSign == Or(ionMatch.g1, ionMatch.g3)
             ion == Or(ionMatch.g2, ionMatch.g4)
         IN IF ion = ""
            THEN IF ionPlusSign # ""
                 THEN Fail(getDangerStr(hrmsData, Msg("dataErr", lang), ionMatch.all))
                 ELSE Pass
            ELSE IF ion \in ionList
            THEN Pass
            ELSE Fail(getDangerStr(hrmsData, Msg("dataErr", lang), ionMatch.all))

\* lines 253-274: the counter ion.  ionMatch holds the match's text (all) and
\* its four groups, Null for a group that took no part in the match
ionCheck(hrmsData, ionMatch, strict, lang) ==
    IF ~ionMatch.matched
    THEN Fail(getDangerStr(hrmsData, Msg("dataErr", lang), Undefined))
    ELSE LET ionPlusSign == Or(ionMatch.g1, ionMatch.g3)
             ion == Or(ionMatch.g2, ionMatch.g4)
         IN IF ion = ""
            THEN IF ionPlusSign # ""
                 THEN Fail(getDangerStr(hrmsData, Msg("dataErr", lang), ionMatch.all))
                 ELSE Pass
            ELSE IF ion \in ionList
            THEN IF strict /\ ionPlusSign # " + "
                 THEN Fail(getDangerStr(hrmsData, Msg("formatErr", lang), ionMatch.all))
                 ELSE Pass
            ELSE Fail(getDangerStr(hrmsData, Msg("dataErr", lang), ionMatch.all))

\* lines 276-303: formula and masses; the groups of dataReg are never empty
dataCheck(hrmsData, dataMatch, lang) ==
    IF ~dataMatch.matched
    THEN Fail(getDangerStr(hrmsData, Msg("dataErr", lang), Undefined))
    ELSE IF ~FormulaIsValid(dataMatch.formula)
         THEN Fail(getDangerStr(hrmsData, Msg("dataErr", lang), <<dataMatch.formula>>))
         ELSE Pass

\* lines 239-251: the ion source, matched by substring against sourceList
sourceCheck(hrmsData, sourceMatch, lang) ==
    IF ~sourceMatch.matched
    THEN Fail(getDangerStr(hrmsData, Msg("dataErr", lang), Undefined))
    ELSE IF ~(\E availableSource \in sourceList :
                 Includes(sourceMatch.g1, availableSource))
         THEN Fail(getDangerStr(hrmsData, Msg("dataErr", lang), sourceMatch.g1))
         ELSE Pass

\* m is the clause with its match results: text (hrmsMatch[0]), sourceMatch,
\* ionMatch, dataMatch
parseHrmsData(m, strict, lang) ==
    LET hrmsData == m.text
        sourceVerdict == sourceCheck(hrmsData, m.sourceMatch, lang)
        ionVerdict == ionCheck(hrmsData, m.ionMatch, strict, lang)
        dataVerdict == dataCheck(hrmsData, m.dataMatch, lang)
    IN IF ~sourceVerdict.ok THEN DangerStr(sourceVerdict.str)
       ELSE IF ~ionVerdict.ok THEN DangerStr(ionVerdict.str)
       ELSE IF ~dataVerdict.ok THEN DangerStr(dataVerdict.str)
       ELSE LET ion == Or(m.ionMatch.g2, m.ionMatch.g4)
            IN HrmsData(hrmsData, m.sourceMatch.g1, ion, m.dataMatch.formula,
                        calcdMassOf(m.dataMatch.formula, ion),
                        m.dataMatch.exactMass, m.dataMatch.foundMass)

(***************************************************************************)
(* HrmsComponent.renderStrArrays                                           *)
(***************************************************************************)
requiredDecimal == 4
maxFoundError == 3000
errorEdge == 100

Abs(x) == IF x < 0 THEN 0 - x ELSE x

\* Number(massString), micro-Da; at most 6 decimals
Number(s) ==
    LET i == IndexOf(s, <<".">>)
        frac == SubSeq(s, i + 1, Len(s))
    IN IntOfDigits(SubSeq(s, 1, i - 1)) * Pow10(6) + IntOfDigits(frac) * Pow10(6 - Len(frac))

\* mutant: 3 decimals
toFixed3(x, up) ==
    LET q == x \div 1000
        r == x % 1000
    IN Fixed(IF r > 500 \/ (r = 500 /\ up) THEN q + 1 ELSE q, 3)

\* x.toFixed(4) of a micro value.  A decimal tie (a 5 in the fifth decimal and
\* nothing after) is decided by the binary value of the double, which lies on
\* either side of the tie: up says on which
toFixed4(x, up) ==
    LET q == x \div 100
        r == x % 100
    IN Fixed(IF r > 50 \/ (r = 50 /\ up) THEN q + 1 ELSE q, 4)

\* lines 157: the exact mass the record holds after the mode branch
coerceExactMass(exactMass, strict, up) ==
    IF strict THEN exactMass ELSE toFixed4(Number(exactMass), up)

\* lines 159-165: the consistency check on the (coerced) exact mass
isInconsistent(exactMass, calcdMass) ==
    round(Abs(Number(exactMass) - calcdMass), 4) > errorEdge

\* mutant: the found mass is looked at before the exact mass
strictChecksFoundFirst(hrms, highlight, lang) ==
    IF Len(Fraction(hrms.foundMass)) # requiredDecimal
    THEN Fail(dangerOnCondition(highlight, hrms.data, Msg("decimalErr", lang),
                                hrms.foundMass))
    ELSE IF Len(Fraction(hrms.exactMass)) # requiredDecimal
    THEN Fail(dangerOnCondition(highlight, hrms.data, Msg("decimalErr", lang),
                                hrms.exactMass))
    ELSE IF Abs(Number(hrms.foundMass) - Number(hrms.exactMass)) > maxFoundError
    THEN Fail(dangerOnCondition(highlight, hrms.data, Msg("foundErr", lang),
                                hrms.foundMass))
    ELSE Pass

\* lines 137-155: the strict checks; the danger string returned, or Pass
strictChecks(hrms, highlight, lang) ==
    IF Len(Fraction(hrms.exactMass)) # requiredDecimal
    THEN Fail(dangerOnCondition(highlight, hrms.data, Msg("decimalErr", lang),
                                hrms.exactMass))
    ELSE IF Len(Fraction(hrms.foundMass)) # requiredDecimal
    THEN Fail(dangerOnCondition(highlight, hrms.data, Msg("decimalErr", lang),
                                hrms.foundMass))
    ELSE IF Abs(Number(hrms.foundMass) - Number(hrms.exactMass)) > maxFoundError
    THEN Fail(dangerOnCondition(highlight, hrms.data, Msg("foundErr", lang),
                                hrms.foundMass))
    ELSE Pass

\* the body of the map callback of renderStrArrays for one record: the string
\* it returns (out) and the record as the callback leaves it (hrms)
renderOne(hrms, highlight, strict, lang, up) ==
    IF hrms.kind = "str"
    THEN [out |-> IF highlight THEN <<"<strong>">> \o hrms.str \o <<"</strong>">>
                  ELSE hrms.str,
          hrms |-> hrms]
    ELSE LET verdict == IF strict THEN strictChecks(hrms, highlight, lang) ELSE Pass
             coerced == [hrms EXCEPT !.exactMass = coerceExactMass(@, strict, up)]
             mergedData == Replace(hrms.data, <<hrms.formula>>,
                                   FormulaToString(hrms.formula))
             formattedData == Replace(hrms.data, <<hrms.formula>>,
                                      FormulaToFormattedString(hrms.formula))
         IN IF ~verdict.ok THEN [out |-> verdict.str, hrms |-> hrms]
            ELSE IF isInconsistent(coerced.exactMass, coerced.calcdMass)
            THEN [out |-> dangerOnCondition(highlight, coerced.data,
                              Msg("calcErr", lang) \o Fixed(coerced.calcdMass \div 100, 4),
                              coerced.exactMass),
                  hrms |-> coerced]
            ELSE [out |-> IF highlight
                          THEN <<"<b>">> \o highlightSuccess(formattedData) \o <<"</b>">>
                          ELSE mergedData,
                  hrms |-> coerced]

renderStrArrays(hrmsRenderObjs, highlight, strict, lang, up) ==
    [i \in 1..Len(hrmsRenderObjs) |->
        renderOne(hrmsRenderObjs[i], highlight, strict, lang, up)]

(***************************************************************************)
(* HrmsComponent.getHrmsDataArray                                          *)
(***************************************************************************)
\* compact(dataArr): the lines hrmsReg matches, in order.  A line it does not
\* match maps to null (its errMsg is computed and dropped) and compact removes
\* it.  yield_, weight and errMsg of the others are never read by render.
validHrmsData(lines) == SelectSeq(lines, LAMBDA l : l.matched)

\* the input is the empty string: one empty line
isEmptyInput(lines) == Len(lines) = 1 /\ lines[1].raw = <<>>

(***************************************************************************)
(* The HRMS lines a user may type                                          *)
(***************************************************************************)
MaxLines == 2

Tok(x) == IF x = "" THEN <<>> ELSE <<x>>

NoSourceMatch == [matched |-> FALSE, g1 |-> <<>>]
NoIonMatch == [matched |-> FALSE, all |-> <<>>, g1 |-> Null, g2 |-> Null,
               g3 |-> Null, g4 |-> Null]
NoDataMatch == [matched |-> FALSE, formula |-> "", exactMass |-> <<>>,
                foundMass |-> <<>>]

\* ionReg on "[M<plus><ion>]+" (groups 1, 2) or "(M<plus><ion>)+" (groups 3, 4)
IonMatchOf(shape, plus, ion) ==
    IF shape = "bracket"
    THEN [matched |-> TRUE, all |-> <<"[M">> \o Tok(plus) \o Tok(ion) \o <<"]+">>,
          g1 |-> plus, g2 |-> ion, g3 |-> Null, g4 |-> Null]
    ELSE IF shape = "paren"
    THEN [matched |-> TRUE, all |-> <<"(M">> \o Tok(plus) \o Tok(ion) \o <<")+">>,
          g1 |-> Null, g2 |-> Null, g3 |-> plus, g4 |-> ion]
    ELSE NoIonMatch

\* a line hrmsReg matches, with the results of sourceReg, ionReg and dataReg on
\* the matched clause; source = <<>>, shape = "none", formula = "" leave the part out
HrmsLine(source, shape, plus, ion, formula, exactMass, foundMass) ==
    LET ionMatch == IonMatchOf(shape, plus, ion)
        text == <<"HRMS ">>
                \o (IF source = <<>> THEN <<>> ELSE <<"(">> \o source \o <<")">>)
                \o <<" m/z ">> \o ionMatch.all
                \o (IF formula = "" THEN <<" calcd ">>
                    ELSE <<" calcd for ", formula, " ">> \o exactMass
                         \o <<", found ">> \o foundMass)
    IN [matched |-> TRUE, raw |-> text, text |-> text,
        sourceMatch |-> IF source = <<>> THEN NoSourceMatch
                        ELSE [matched |-> TRUE, g1 |-> source],
        ionMatch |-> ionMatch,
        dataMatch |-> IF formula = "" THEN NoDataMatch
                      ELSE [matched |-> TRUE, formula |-> formula,
                            exactMass |-> exactMass, foundMass |-> foundMass]]

\* a line hrmsReg does not match
OtherLine(raw) ==
    [matched |-> FALSE, raw |-> raw, text |-> <<>>, sourceMatch |-> NoSourceMatch,
     ionMatch |-> NoIonMatch, dataMatch |-> NoDataMatch]

ESI == <<"E", "S", "I">>

\* reported exact masses around the calculated mass c (micro-Da): right, off by
\* 0.0001 and 0.0002, and with 3 and 5 decimals
ExactChoices(c) ==
    { Fixed(c \div 100, 4), Fixed(c \div 100 + 1, 4), Fixed(c \div 100 + 2, 4),
      Fixed((c + 500) \div 1000, 3),
      Fixed(c \div 10 + 1, 5), Fixed(c \div 10 + 15, 5) }

\* reported found masses around the exact mass: equal, 0.0030 and 0.0031 away,
\* and with 3 decimals
FoundChoices(exactMass) ==
    LET e == (Number(exactMass) + 50) \div 100
    IN { Fixed(e, 4), Fixed(e + 30, 4), Fixed(e + 31, 4), Fixed(e \div 10, 3) }

MassLines ==
    { HrmsLine(ESI, "bracket", " + ", "H", f, e, d) :
        <<f, e, d>> \in
          UNION { UNION { { <<f, e, d>> : d \in FoundChoices(e) } :
                          e \in ExactChoices(calcdMassOf(f, "H")) } :
                  f \in DOMAIN FormulaPairs } }

IonLines ==
    { HrmsLine(ESI, shape, plus, ion, "CH4O",
               Fixed(calcdMassOf("CH4O", ion) \div 100, 4),
               Fixed(calcdMassOf("CH4O", ion) \div 100, 4)) :
        shape \in {"bracket", "paren"}, plus \in {"", " + ", "+"},
        ion \in {"", "H", "Na", "Li"} }

GoodLine == HrmsLine(ESI, "bracket", " + ", "H", "CH4O",
                     Fixed(calcdMassOf("CH4O", "H") \div 100, 4),
                     Fixed(calcdMassOf("CH4O", "H") \div 100, 4))

BadSourceLine == HrmsLine(<<"X", "Y", "Z">>, "bracket", " + ", "H", "CH4O",
                          <<"3", "2", ".", "0", "2", "5", "7">>,
                          <<"3", "2", ".", "0", "2", "5", "7">>)

OtherLines ==
    { HrmsLine(<<"E", "S", "I", "-", "T", "O", "F">>, "bracket", " + ", "H", "CH4O",
               <<"3", "2", ".", "0", "2", "5", "7">>, <<"3", "2", ".", "0", "2", "5", "7">>),
      BadSourceLine,
      HrmsLine(<<>>, "bracket", " + ", "H", "CH4O",
               <<"3", "2", ".", "0", "2", "5", "7">>, <<"3", "2", ".", "0", "2", "5", "7">>),
      HrmsLine(ESI, "none", "", "", "CH4O",
               <<"3", "2", ".", "0", "2", "5", "7">>, <<"3", "2", ".", "0", "2", "5", "7">>),
      HrmsLine(ESI, "bracket", " + ", "H", "", <<>>, <<>>),
      HrmsLine(ESI, "bracket", " + ", "H", "Xx2",
               <<"3", "2", ".", "0", "2", "5", "7">>, <<"3", "2", ".", "0", "2", "5", "7">>),
      OtherLine(<<"mp 120 C">>), OtherLine(<<>>) }

LineDomain == MassLines \cup IonLines \cup OtherLines

\* the other lines of a batch
Siblings == {GoodLine, BadSourceLine, OtherLine(<<"mp 120 C">>)}

\* the inputs: one line of LineDomain, alone or among sibling lines
Batches ==
    UNION { { [i \in 1..n |-> IF i = k THEN l ELSE sib[i]] :
                k \in 1..n, l \in LineDomain, sib \in [1..n -> Siblings] } :
            n \in 1..MaxLines }

(***************************************************************************)
(* utils/nmr: the multiplicity tables                                      *)
(***************************************************************************)
\* the recognized multiplicities
Multiplets == {"s", "d", "t", "q", "m", "dd", "ddd"}

isPeak(peakType) == peakType \in Multiplets

isSinglePeak(peakType) == peakType = "s"

isMultiplePeak(peakType) == peakType = "m"

\* the multiplicities reported with coupling constants: all of them, or only
\* the first-order ones when isGeneral
isMultiplePeakWithJ(peakType, isGeneral) ==
    IF isGeneral THEN peakType \in {"d", "t", "q"}
    ELSE peakType \in {"d", "t", "q", "dd", "ddd"}

\* the number of coupling constants of each multiplicity
JCount == [d |-> 1, t |-> 1, q |-> 1, dd |-> 2, ddd |-> 3]

(***************************************************************************)
(* H1Component.parsePeakData                                               *)
(***************************************************************************)
peakRangePlaceholder == "PEAKRANGE"

\* H1Component.tooltipErrors; the Chinese texts are transliterated tags
tooltipErrors == <<
    << <<" only", "zh:only">>, <<" peak should", "zh:peakShould">>,
       <<" have ", "zh:have">>, <<" coupling constant", "zh:couplingConstant">> >>,
    <<"Invalid format.", "zh:invalidFormat">>,
    <<"Chemical shift of multiplet should be written from low field to high field.",
      "zh:lowToHigh">>,
    <<" peak type does not exists.", "zh:noSuchType">>,
    <<"Multiplet peaks should be reported in interval", "zh:interval">>,
    <<"Do not report coupling constants in multiplet peaks", "zh:noJInMultiplet">>,
    <<" peak should have only one chemical shift", "zh:oneShift">>,
    <<" peak do not have coupling constants", "zh:noJ">>,
    <<" peak should have coupling constants", "zh:needsJ">>,
    <<"Original data: ", "zh:original">>,
    <<" peak has been marked as multiplets, please report the spectrum data manually",
      "zh:markedMultiplet">> >>

\* tooltipErrors[i][currentLanguage]
Tip(i, lang) == tooltipErrors[i + 1][lang + 1]

\* Number(undefined) and Number of a missing group
NaN == -1

\* Js: null
NullJs == <<NaN>>

\* lodash compact on numbers: 0 and NaN are dropped
compact(numbers) == SelectSeq(numbers, LAMBDA x : x # NaN /\ x # 0)

\* the peak field of an entry: a shift string (single), an array of two shift
\* strings (range), the placeholder, or a highlighted string (danger); shifts
\* are counted in 0.01 ppm
SinglePeak(v) == [form |-> "single", v |-> <<v>>]
RangePeak(a, b) == [form |-> "range", v |-> <<a, b>>]
PlaceholderPeak == [form |-> peakRangePlaceholder, v |-> <<>>]
DangerPeak(v) == [form |-> "danger", v |-> v]

\* typeof peak === 'string'
peakIsString(peak) == peak.form # "range"

\* a structured entry; a flag is "true", "false" or "undefined"
H1Data(peak, peakType, Js, hydrogenCount, danger, warning, peakTypeError, msg) ==
    [kind |-> "data", str |-> <<>>, peak |-> peak, peakType |-> peakType, Js |-> Js,
     hydrogenCount |-> hydrogenCount, danger |-> danger, warning |-> warning,
     peakTypeError |-> peakTypeError, errMsg |-> msg]

\* a token returned as a highlighted string
H1Danger(str) ==
    [kind |-> "str", str |-> str, peak |-> PlaceholderPeak, peakType |-> "", Js |-> NullJs,
     hydrogenCount |-> 0, danger |-> "undefined", warning |-> "undefined",
     peakTypeError |-> "undefined", errMsg |-> Undefined]

Flag(b) == IF b THEN "true" ELSE "false"

\* String(JCount[peakType])
JCountText(peakType) ==
    IF peakType \in DOMAIN JCount THEN NatToStr(JCount[peakType]) ELSE <<"undefined">>

\* mutant: only too many constants are a mismatch
JCountMismatchTooMany(Js, peakType) ==
    IF peakType \in DOMAIN JCount THEN Len(Js) > JCount[peakType] ELSE TRUE

\* lines 334-341: the count of the captured constants against JCount
JCountMismatch(Js, peakType) ==
    IF peakType \in DOMAIN JCount THEN Len(Js) # JCount[peakType] ELSE TRUE

\* lines 336-339
peakTypeMsg(peakType, lang) ==
    LET JNumber == IF peakType \in DOMAIN JCount THEN JCount[peakType] ELSE NaN
        zhi == IF JNumber = 1 THEN tooltipErrors[1][1][lang + 1] ELSE ""
        end == IF lang = Chinese /\ JNumber > 1 THEN "s" ELSE ""
    IN <<peakType, tooltipErrors[1][2][lang + 1]>> \o Tok(zhi)
       \o <<tooltipErrors[1][3][lang + 1]>> \o JCountText(peakType)
       \o <<tooltipErrors[1][4][lang + 1]>> \o Tok(end)

\* U+2013 is written <en>, U+2212 <minus>
validHyphen == {"<en>", " <en> ", "<minus>", " <minus> ", " - ", "-"}
validEnding == {"H", ".", ";"}

\* lines 357-363, 391-397: the token, closed with ")" if it holds none, spaces
\* escaped, highlighted
invalidFormat(tok, lang) ==
    H1Danger(highlightDanger(<<"escaped:", tok.data, tok.closing>>, <<Tip(1, lang)>>))

\* mutant: the comparison the other way round
numberGreater(shift) == Len(shift) = 2 /\ shift[1] > shift[2]

\* Number(a) < Number(b), false when b is missing
numberLess(shift) == Len(shift) = 2 /\ shift[1] < shift[2]

\* tok holds the results of the two regular expressions on the token
parsePeakData(tok, strict, lang) ==
    IF tok.match = "withJs"
    THEN LET Js == compact(tok.Js)
         IN H1Data(SinglePeak(tok.shift[1]), tok.peakType, Js, tok.hydrogenCount,
                   "undefined", "undefined",
                   Flag(JCountMismatch(Js, tok.peakType)),
                   IF JCountMismatch(Js, tok.peakType)
                   THEN peakTypeMsg(tok.peakType, lang) ELSE <<>>)
    ELSE IF tok.match = "withoutJs"
    THEN IF tok.ending \notin validEnding THEN invalidFormat(tok, lang)
         ELSE IF strict /\ tok.hyphen \notin validHyphen /\ tok.hyphen # ""
         THEN H1Data(DangerPeak(highlightDanger(<<"shift:", tok.data>>, <<Tip(1, lang)>>)),
                     tok.peakType, NullJs, tok.hydrogenCount,
                     "undefined", "undefined", "undefined", Undefined)
         ELSE H1Data(IF Len(tok.shift) = 1 THEN SinglePeak(tok.shift[1])
                     ELSE RangePeak(tok.shift[1], tok.shift[2]),
                     tok.peakType, NullJs, tok.hydrogenCount,
                     Flag(numberLess(tok.shift)), "undefined", "undefined",
                     IF numberLess(tok.shift) THEN <<Tip(2, lang)>> ELSE <<>>)
    ELSE invalidFormat(tok, lang)

(***************************************************************************)
(* H1Component.fixPeakData                                                 *)
(***************************************************************************)
\* the one-decimal constants up to 64 Hz whose product 1000 * J is not an
\* integer in binary64 (1000 * 16.1 is 16100.000000000002), in 0.001 Hz
InexactProducts == {16100, 32200, 32300, 32700}

\* mutant: J % freq without the magnification
isJValidUnmagnified(J, freq) == J # 0 /\ J % 1000 = 0 /\ (J \div 1000) % freq = 0

\* J in 0.001 Hz: 1000 * J % freq === 0, false for 0; the remainder of a
\* product that is not an integer is not 0
isJValid(J, freq) == J # 0 /\ J \notin InexactProducts /\ J % freq = 0

\* Math.round(1000 * J / freq) * freq / 1000, in 0.001 Hz
roundJ(J, freq) == ((2 * J + freq) \div (2 * freq)) * freq

\* J.toFixed(1) of each, joined with ", "
RECURSIVE JsText(_)
JsText(Js) ==
    IF Js = <<>> THEN <<>>
    ELSE Fixed((Js[1] + 50) \div 100, 1)
         \o (IF Len(Js) = 1 THEN <<>> ELSE <<", ">> \o JsText(Tail(Js)))

\* mutant: missing coupling constants are let through
fixJsMissingAllowed(d, original, freq, lang) ==
    IF d.Js = NullJs
    THEN d
    ELSE IF (\E k \in 1..Len(d.Js) : ~isJValid(d.Js[k], freq)) /\ d.peakTypeError # "true"
    THEN [d EXCEPT !.Js = [k \in 1..Len(d.Js) |-> roundJ(d.Js[k], freq)],
                   !.warning = "true",
                   !.errMsg = <<Tip(9, lang), "<em>J</em> = ">>
                              \o JsText(original.Js) \o <<" Hz">>]
    ELSE d

\* lines 450-469: the branch of the multiplicities that carry coupling constants
fixJs(d, original, freq, lang) ==
    IF d.Js = NullJs
    THEN [d EXCEPT !.peakTypeError = "true",
                   !.errMsg = <<d.peakType, Tip(8, lang)>>]
    ELSE IF (\E k \in 1..Len(d.Js) : ~isJValid(d.Js[k], freq)) /\ d.peakTypeError # "true"
    THEN [d EXCEPT !.Js = [k \in 1..Len(d.Js) |-> roundJ(d.Js[k], freq)],
                   !.warning = "true",
                   !.errMsg = <<Tip(9, lang), "<em>J</em> = ">>
                              \o JsText(original.Js) \o <<" Hz">>]
    ELSE d

\* lines 423-433: the multiplet "m"
fixMultiplet(d, lang) ==
    LET d1 == IF peakIsString(d.peak)
              THEN [d EXCEPT !.danger = "true", !.errMsg = <<Tip(4, lang)>>]
              ELSE d
    IN IF d1.Js # NullJs
       THEN [d1 EXCEPT !.warning = "true", !.errMsg = <<Tip(5, lang)>>]
       ELSE d1

\* mutant: the coercion to "m" leaves the shift as it was
fixOtherKeepsShift(d, original, freq, isGeneral, willFixJ, lang) ==
    LET d1 == IF ~peakIsString(d.peak)
              THEN [d EXCEPT !.danger = "true",
                             !.errMsg = <<d.peakType, Tip(6, lang)>>]
              ELSE d
    IN IF isSinglePeak(d1.peakType)
       THEN IF d1.Js # NullJs
            THEN [d1 EXCEPT !.peakTypeError = "true",
                            !.errMsg = <<d1.peakType, Tip(7, lang)>>]
            ELSE d1
       ELSE IF isMultiplePeakWithJ(d1.peakType, isGeneral)
       THEN IF willFixJ THEN fixJs(d1, original, freq, lang) ELSE d1
       ELSE [d1 EXCEPT !.danger = "true", !.peakType = "m", !.Js = NullJs,
                       !.errMsg = <<original.peakType, Tip(10, lang)>>]

\* lines 434-481: every other recognized multiplicity
fixOther(d, original, freq, isGeneral, willFixJ, lang) ==
    LET d1 == IF ~peakIsString(d.peak)
              THEN [d EXCEPT !.danger = "true",
                             !.errMsg = <<d.peakType, Tip(6, lang)>>]
              ELSE d
    IN IF isSinglePeak(d1.peakType)
       THEN IF d1.Js # NullJs
            THEN [d1 EXCEPT !.peakTypeError = "true",
                            !.errMsg = <<d1.peakType, Tip(7, lang)>>]
            ELSE d1
       ELSE IF isMultiplePeakWithJ(d1.peakType, isGeneral)
       THEN IF willFixJ THEN fixJs(d1, original, freq, lang) ELSE d1
       ELSE [d1 EXCEPT !.danger = "true", !.peakType = "m",
                       !.peak = PlaceholderPeak, !.Js = NullJs,
                       !.errMsg = <<original.peakType, Tip(10, lang)>>]

\* generalChecked is $general.checked, willFixJ is $autoFixJ.checked
fixPeakData(peakDatum, freq, generalChecked, willFixJ, lang) ==
    IF peakDatum.kind = "str" THEN peakDatum
    ELSE LET isGeneral == ~generalChecked
         IN IF ~isPeak(peakDatum.peakType)
            THEN [peakDatum EXCEPT !.peakTypeError = "true",
                                   !.errMsg = <<peakDatum.peakType, Tip(3, lang)>>]
            ELSE IF isMultiplePeak(peakDatum.peakType)
            THEN fixMultiplet(peakDatum, lang)
            ELSE fixOther(peakDatum, peakDatum, freq, isGeneral, willFixJ, lang)

(***************************************************************************)
(* The peak tokens a user may type                                         *)
(***************************************************************************)
\* a token with its match results.  match: which grammar matched; shift: the
\* one or two shift values; hyphen: what splitReg matched in the shift text;
\* Js: groups 3-5 as numbers; ending: the last character of the match;
\* closing: ")" when the token holds none
Token(match, shift, hyphen, peakType, Js, ending) ==
    [match |-> match, shift |-> shift, hyphen |-> hyphen, peakType |-> peakType,
     Js |-> Js, hydrogenCount |-> 1, ending |-> ending,
     closing |-> IF ending = ")" THEN "" ELSE ")", data |-> "token"]

\* groups 3-5 of the with-coupling grammar: one to three numbers, the rest
\* undefined
JCaptures ==
    { <<a, NaN, NaN>> : a \in {0, 7200, 7500, 16100} }
    \cup { <<a, b, NaN>> : a \in {7200, 7500}, b \in {0, 7200, 7500} }
    \cup { <<a, b, c>> : a \in {7200, 7500}, b \in {7200, 7500}, c \in {7200, 7500} }

TokensWithJs ==
    { Token("withJs", <<715>>, "", peakType, Js, "H") :
        peakType \in Multiplets \cup {"x"}, Js \in JCaptures }

ShiftTexts ==
    { <<<<715>>, "">> }
    \cup { <<shift, hyphen>> : shift \in {<<710, 668>>, <<668, 710>>, <<700, 700>>},
                               hyphen \in {"-", " <en> ", "  -  "} }

TokensWithoutJs ==
    { Token("withoutJs", st[1], st[2], peakType, <<NaN, NaN, NaN>>, ending) :
        st \in ShiftTexts, peakType \in {"s", "m", "d", "dd", "x"},
        ending \in {"H", ")"} }

Tokens == TokensWithJs \cup TokensWithoutJs
          \cup {Token("none", <<715>>, "", "", <<NaN, NaN, NaN>>, "H")}

\* metadata frequencies, MHz; 1 is what handle() takes when the metadata is null
Frequencies == {1, 400, 500, 700}

NoToken == Token("none", <<0>>, "", "", <<NaN, NaN, NaN>>, "H")
NoEntry == H1Danger(<<>>)

(***************************************************************************)
(* HrmsComponent.handle, in the order it runs                              *)
(***************************************************************************)
\* the H1 fields while no peak token is being handled
H1Idle ==
    /\ peakToken = NoToken
    /\ metaFreq = 1
    /\ generalMultiplet = FALSE
    /\ autoFixJ = FALSE
    /\ peakDataObj = NoEntry
    /\ fixedPeakDataObj = NoEntry

\* the arguments and results while isJValid and roundJ are not being called
RoundIdle ==
    /\ jInput = 0
    /\ jFreq = 1
    /\ jValid = FALSE
    /\ jRounded = 0

\* the page before anything is typed: AppComponent.init has run handle() on
\* the empty #input
AppIdle ==
    /\ autoCopy = FALSE
    /\ output = <<>>
    /\ clipboard = <<>>

\* the height of the two panes
clientHeight == 4

\* the panes before anything is typed: nothing overflows, nothing was scrolled
ScrollIdle ==
    /\ leftScrollFlag = FALSE
    /\ rightScrollFlag = FALSE
    /\ inputScrollTop = 0
    /\ outputScrollTop = 0
    /\ inputScrollHeight = clientHeight
    /\ outputScrollHeight = clientHeight
    /\ inputScrollEvent = {}
    /\ outputScrollEvent = {}

NoResult == [isNull |-> TRUE, input |-> <<>>, outputPlain |-> <<>>, outputRich |-> <<>>]

Init ==
    /\ pc = "idle"
    /\ isStrict = FALSE
    /\ language = English
    /\ inputLines = <<OtherLine(<<>>)>>
    /\ hrmsObjs = <<>>
    /\ willHighlightData = FALSE
    /\ hrmsResult = NoResult
    /\ H1Idle
    /\ RoundIdle
    /\ AppIdle
    /\ ScrollIdle

\* the user edits #input or toggles #strict or the language
HrmsInput ==
    /\ pc = "idle"
    /\ inputLines' \in Batches
    /\ isStrict' \in BOOLEAN
    /\ language' \in {English, Chinese}
    /\ hrmsObjs' = <<>>
    /\ willHighlightData' = FALSE
    /\ hrmsResult' = NoResult
    /\ pc' = "hrmsHandle"
    /\ UNCHANGED <<h1Vars, restVars>>

\* handle(), lines 72-84, and the early return of render (lines 113-116)
HrmsHandle ==
    /\ pc = "hrmsHandle"
    /\ willHighlightData' = FALSE
    /\ hrmsResult' = NoResult
    /\ IF isEmptyInput(inputLines) \/ validHrmsData(inputLines) = <<>>
       THEN /\ hrmsObjs' = <<>>
            /\ pc' = "done"
       ELSE /\ hrmsObjs' = [i \in 1..Len(validHrmsData(inputLines)) |->
                               parseHrmsData(validHrmsData(inputLines)[i],
                                             isStrict, language)]
            /\ pc' = "hrmsRenderPlain"
    /\ UNCHANGED <<isStrict, language, inputLines, h1Vars, restVars>>

\* render(), lines 117-118: the first renderStrArrays
HrmsRenderPlain ==
    /\ pc = "hrmsRenderPlain"
    /\ \E up \in BOOLEAN :
         LET r == renderStrArrays(hrmsObjs, willHighlightData, isStrict, language, up)
         IN /\ hrmsObjs' = [i \in 1..Len(r) |-> r[i].hrms]
            /\ hrmsResult' = [isNull |-> TRUE,
                              input |-> [i \in 1..Len(r) |-> validHrmsData(inputLines)[i].text],
                              outputPlain |-> [i \in 1..Len(r) |-> r[i].out],
                              outputRich |-> <<>>]
    /\ willHighlightData' = TRUE
    /\ pc' = "hrmsRenderRich"
    /\ UNCHANGED <<isStrict, language, inputLines, h1Vars, restVars>>

\* render(), lines 119-120: the second renderStrArrays and the return
HrmsRenderRich ==
    /\ pc = "hrmsRenderRich"
    /\ \E up \in BOOLEAN :
         LET r == renderStrArrays(hrmsObjs, willHighlightData, isStrict, language, up)
         IN /\ hrmsObjs' = [i \in 1..Len(r) |-> r[i].hrms]
            /\ hrmsResult' = [hrmsResult EXCEPT !.isNull = FALSE,
                                                !.outputRich = [i \in 1..Len(r) |-> r[i].out]]
    /\ pc' = "done"
    /\ UNCHANGED <<isStrict, language, inputLines, willHighlightData, h1Vars, restVars>>

\* handle() has returned and the component waits for the next event.  reset()
\* overwrites inputtedData, willHighlightData and isStrict when handle() runs
\* again, and the records of this run are garbage: nothing of it is read again
HrmsReturn ==
    /\ pc = "done"
    /\ pc' = "idle"
    /\ isStrict' = FALSE
    /\ language' = English
    /\ inputLines' = <<OtherLine(<<>>)>>
    /\ hrmsObjs' = <<>>
    /\ willHighlightData' = FALSE
    /\ hrmsResult' = NoResult
    /\ UNCHANGED <<h1Vars, restVars>>

(***************************************************************************)
(* H1Component.handle on one peak token                                    *)
(***************************************************************************)
\* the user edits #input or toggles a checkbox or the language
H1Input ==
    /\ pc = "idle"
    /\ peakToken' \in Tokens
    /\ metaFreq' \in Frequencies
    /\ generalMultiplet' \in BOOLEAN
    /\ autoFixJ' \in BOOLEAN
    /\ isStrict' \in BOOLEAN
    /\ language' \in {English, Chinese}
    /\ pc' = "h1Parse"
    /\ UNCHANGED <<peakDataObj, fixedPeakDataObj, hrmsVars, restVars>>

\* handle(), lines 94-96
H1Parse ==
    /\ pc = "h1Parse"
    /\ peakDataObj' = parsePeakData(peakToken, isStrict, language)
    /\ pc' = "h1Fix"
    /\ UNCHANGED <<peakToken, metaFreq, generalMultiplet, autoFixJ, fixedPeakDataObj,
                   isStrict, language, hrmsVars, restVars>>

\* handle(), lines 103-110
H1Fix ==
    /\ pc = "h1Fix"
    /\ fixedPeakDataObj' = fixPeakData(peakDataObj, metaFreq, generalMultiplet, autoFixJ, language)
    /\ pc' = "h1Done"
    /\ UNCHANGED <<peakToken, metaFreq, generalMultiplet, autoFixJ, peakDataObj,
                   isStrict, language, hrmsVars, restVars>>

\* handle() has returned; the entries of this run are not read again
H1Return ==
    /\ pc = "h1Done"
    /\ pc' = "idle"
    /\ isStrict' = FALSE
    /\ language' = English
    /\ peakToken' = NoToken
    /\ metaFreq' = 1
    /\ generalMultiplet' = FALSE
    /\ autoFixJ' = FALSE
    /\ peakDataObj' = NoEntry
    /\ fixedPeakDataObj' = NoEntry
    /\ UNCHANGED <<hrmsVars, restVars>>

Next ==
    \/ HrmsInput \/ HrmsHandle \/ HrmsRenderPlain \/ HrmsRenderRich \/ HrmsReturn
    \/ H1Input \/ H1Parse \/ H1Fix \/ H1Return

Spec == Init /\ [][Next]_vars

(***************************************************************************)
(* isJValid and roundJ called on their own                                 *)
(***************************************************************************)
\* the largest J of the calls, in 0.1 Hz
MaxJ == 400

\* a positive J with one decimal and a frequency
RoundInit ==
    /\ pc = "isJValid"
    /\ isStrict = FALSE
    /\ language = English
    /\ inputLines = <<OtherLine(<<>>)>>
    /\ hrmsObjs = <<>>
    /\ willHighlightData = FALSE
    /\ hrmsResult = NoResult
    /\ H1Idle
    /\ jInput \in {100 * j : j \in 1..MaxJ}
    /\ jFreq \in Frequencies
    /\ jValid = FALSE
    /\ jRounded = 0
    /\ AppIdle
    /\ ScrollIdle

CallIsJValid ==
    /\ pc = "isJValid"
    /\ jValid' = isJValid(jInput, jFreq)
    /\ pc' = "roundJ"
    /\ UNCHANGED <<jInput, jFreq, jRounded, isStrict, language, hrmsVars, h1Vars, appVars, scrollVars>>

CallRoundJ ==
    /\ pc = "roundJ"
    /\ jRounded' = roundJ(jInput, jFreq)
    /\ pc' = "rounded"
    /\ UNCHANGED <<jInput, jFreq, jValid, isStrict, language, hrmsVars, h1Vars, appVars, scrollVars>>

RoundNext == CallIsJValid \/ CallRoundJ

SpecRoundJ == RoundInit /\ [][RoundNext]_vars

(***************************************************************************)
(* AppComponent.handle on HRMS text                                        *)
(***************************************************************************)
\* String.prototype.replace with a global pattern: every occurrence, left to
\* right; pat is not empty
RECURSIVE ReplaceAll(_, _, _)
ReplaceAll(s, pat, rep) ==
    LET i == IndexOf(s, pat)
    IN IF i = 0 THEN s
       ELSE SubSeq(s, 1, i - 1) \o rep
            \o ReplaceAll(SubSeq(s, i + Len(pat), Len(s)), pat, rep)

\* .replace(/\n/g, '<br>'); the line break is written <lf>
breakLines(s) == [k \in 1..Len(s) |-> IF s[k] = "<lf>" THEN "<br>" ELSE s[k]]

\* $input.value: the lines joined by line breaks
RECURSIVE inputValue(_)
inputValue(lines) ==
    IF Len(lines) = 1 THEN lines[1].raw
    ELSE lines[1].raw \o <<"<lf>">> \o inputValue(Tail(lines))

\* render(), lines 124-126: includes(outputRich[index], 'data-tooltip')
richReplacement(outputRich) ==
    IF Includes(outputRich, <<"<span class=danger data-tooltip=">>)
    THEN outputRich
    ELSE highlightSuccess(outputRich)

\* render(), lines 120-132, from the index-th input of the component on
RECURSIVE richTextFrom(_, _, _)
richTextFrom(richText, componentData, index) ==
    IF index > Len(componentData.input) THEN richText
    ELSE richTextFrom(
             breakLines(ReplaceAll(richText, componentData.input[index],
                                   richReplacement(componentData.outputRich[index]))),
             componentData, index + 1)

\* render(), lines 107-117
RECURSIVE plainTextFrom(_, _, _)
plainTextFrom(plainText, componentData, index) ==
    IF index > Len(componentData.input) THEN plainText
    ELSE plainTextFrom(
             breakLines(Replace(plainText, componentData.input[index],
                                componentData.outputPlain[index])),
             componentData, index + 1)

\* the texts typed into #input: nothing, HRMS lines, and lines no component
\* recognizes
AppBatches ==
    { <<OtherLine(<<>>)>>, <<GoodLine>>, <<BadSourceLine>>,
      <<OtherLine(<<"mp 120 C">>)>>,
      <<GoodLine, OtherLine(<<"mp 120 C">>)>>,
      <<OtherLine(<<"mp 120 C">>), BadSourceLine>>,
      <<GoodLine, GoodLine>> }

\* an input or change event of #input or of a checkbox, or the language
\* switch; HrmsComponent.reset follows in handle()
AppInput ==
    /\ pc \in {"idle", "appDone"}
    /\ inputLines' \in AppBatches
    /\ isStrict' \in BOOLEAN
    /\ language' \in {English, Chinese}
    /\ autoCopy' \in BOOLEAN
    /\ hrmsObjs' = <<>>
    /\ willHighlightData' = FALSE
    /\ hrmsResult' = NoResult
    /\ pc' = "appReset"
    /\ UNCHANGED <<output, clipboard, h1Vars, roundVars, scrollVars>>

\* handle(), lines 70-71: reset(); C13Component.handle() returns null on
\* text without a 13C NMR record
AppReset ==
    /\ pc = "appReset"
    /\ output' = IF isEmptyInput(inputLines) THEN <<>> ELSE output
    /\ pc' = "hrmsHandle"
    /\ UNCHANGED <<isStrict, language, hrmsVars, h1Vars, roundVars, scrollVars, autoCopy, clipboard>>

\* handle(), lines 73-78, and render(): H1Component.handle() returns null on
\* text without a 1H NMR record, so componentsData holds the HRMS result or
\* nothing
AppRender ==
    /\ pc = "done"
    /\ IF hrmsResult.isNull
       THEN UNCHANGED <<output, clipboard>>
       ELSE /\ output' = richTextFrom(inputValue(inputLines), hrmsResult, 1)
            /\ clipboard' = IF autoCopy
                            THEN plainTextFrom(inputValue(inputLines), hrmsResult, 1)
                            ELSE clipboard
    /\ pc' = "appDone"
    /\ UNCHANGED <<isStrict, language, hrmsVars, h1Vars, roundVars, scrollVars, autoCopy>>

AppNext ==
    \/ AppInput \/ AppReset
    \/ HrmsHandle \/ HrmsRenderPlain \/ HrmsRenderRich
    \/ AppRender

SpecApp == Init /\ [][AppNext]_vars

(***************************************************************************)
(* AppComponent.onScrollSync                                               *)
(***************************************************************************)
\* Heights and positions are in pixels.  The browser keeps scrollTop within
\* 0 .. scrollHeight - clientHeight, and it queues a scroll event on an
\* element when, and only when, its scroll position has changed; the events
\* queued on one element before they are dispatched are one event.  The
\* scroll heights are powers of two, so that the quotient and the product of
\* the handlers are exact in binary64.
ScrollHeights == {4, 8, 16}

\* scrollHeight is never less than clientHeight
maxScrollTop(scrollHeight) ==
    IF scrollHeight > clientHeight THEN scrollHeight - clientHeight ELSE 0

\* what an assignment of value to scrollTop leaves in scrollTop
clamp(value, scrollHeight) ==
    IF value > maxScrollTop(scrollHeight) THEN maxScrollTop(scrollHeight) ELSE value

\* round(scrollPercent * otherHeight), scrollPercent = scrollTop / scrollHeight;
\* lodash round is Math.round here: a half rounds up
mirrored(scrollTop, scrollHeight, otherHeight) ==
    (2 * scrollTop * otherHeight + scrollHeight) \div (2 * scrollHeight)

\* the scroll event queued on a pane whose scrollTop a handler has assigned
echoOf(event, old, new) == IF new # old THEN event \cup {"echo"} ELSE event

\* the text of the page has been typed and rendered: both panes have their
\* content, neither has been scrolled
ScrollInit ==
    /\ pc = "scroll"
    /\ isStrict = FALSE
    /\ language = English
    /\ inputLines = <<OtherLine(<<>>)>>
    /\ hrmsObjs = <<>>
    /\ willHighlightData = FALSE
    /\ hrmsResult = NoResult
    /\ H1Idle
    /\ RoundIdle
    /\ AppIdle
    /\ leftScrollFlag = FALSE
    /\ rightScrollFlag = FALSE
    /\ inputScrollTop = 0
    /\ outputScrollTop = 0
    /\ inputScrollHeight \in ScrollHeights
    /\ outputScrollHeight \in ScrollHeights
    /\ inputScrollEvent = {}
    /\ outputScrollEvent = {}

\* The user scrolls one pane at a time: not a pane that is being moved by the
\* handler of the other one, and not while the scroll of the other pane is
\* still to be handled.
\* the user scrolls #input to another position
UserScrollInput ==
    /\ pc = "scroll"
    /\ "echo" \notin inputScrollEvent
    /\ "user" \notin outputScrollEvent
    /\ \E top \in 0..maxScrollTop(inputScrollHeight) :
          /\ top # inputScrollTop
          /\ inputScrollTop' = top
    /\ inputScrollEvent' = inputScrollEvent \cup {"user"}
    /\ UNCHANGED <<pc, isStrict, language, hrmsVars, h1Vars, roundVars, appVars,
                   leftScrollFlag, rightScrollFlag, outputScrollTop,
                   inputScrollHeight, outputScrollHeight, outputScrollEvent>>

\* the user scrolls the output pane to another position
UserScrollOutput ==
    /\ pc = "scroll"
    /\ "echo" \notin outputScrollEvent
    /\ "user" \notin inputScrollEvent
    /\ \E top \in 0..maxScrollTop(outputScrollHeight) :
          /\ top # outputScrollTop
          /\ outputScrollTop' = top
    /\ outputScrollEvent' = outputScrollEvent \cup {"user"}
    /\ UNCHANGED <<pc, isStrict, language, hrmsVars, h1Vars, roundVars, appVars,
                   leftScrollFlag, rightScrollFlag, inputScrollTop,
                   inputScrollHeight, outputScrollHeight, inputScrollEvent>>

\* lines 181-189: the scroll event queued on the output pane is dispatched
outputScroll ==
    /\ pc = "scroll"
    /\ outputScrollEvent # {}
    /\ outputScrollEvent' = {}
    /\ IF ~leftScrollFlag
       THEN LET top == clamp(mirrored(outputScrollTop, outputScrollHeight,
                                      inputScrollHeight), inputScrollHeight)
            IN /\ inputScrollTop' = top
               /\ inputScrollEvent' = echoOf(inputScrollEvent, inputScrollTop, top)
               /\ rightScrollFlag' = TRUE
       ELSE UNCHANGED <<inputScrollTop, inputScrollEvent, rightScrollFlag>>
    /\ leftScrollFlag' = FALSE
    /\ UNCHANGED <<pc, isStrict, language, hrmsVars, h1Vars, roundVars, appVars,
                   outputScrollTop, inputScrollHeight, outputScrollHeight>>

\* lines 190-198: the scroll event queued on #input is dispatched
inputScroll ==
    /\ pc = "scroll"
    /\ inputScrollEvent # {}
    /\ inputScrollEvent' = {}
    /\ IF ~rightScrollFlag
       THEN LET top == clamp(mirrored(inputScrollTop, inputScrollHeight,
                                      outputScrollHeight), outputScrollHeight)
            IN /\ outputScrollTop' = top
               /\ outputScrollEvent' = echoOf(outputScrollEvent, outputScrollTop, top)
               /\ leftScrollFlag' = TRUE
       ELSE UNCHANGED <<outputScrollTop, outputScrollEvent, leftScrollFlag>>
    /\ rightScrollFlag' = FALSE
    /\ UNCHANGED <<pc, isStrict, language, hrmsVars, h1Vars, roundVars, appVars,
                   inputScrollTop, inputScrollHeight, outputScrollHeight>>

ScrollNext == UserScrollInput \/ UserScrollOutput \/ outputScroll \/ inputScroll

SpecScroll == ScrollInit /\ [][ScrollNext]_vars

(***************************************************************************)
(* Vocabulary of the properties                                            *)
(***************************************************************************)
\* the clauses handle() parses, in order: hrmsObjs[i] is the record of Clause(i)
Clause(i) == validHrmsData(inputLines)[i]

Parsed == pc \in {"hrmsRenderPlain", "hrmsRenderRich", "done"} /\ hrmsObjs # <<>>

Rendered == pc = "done" /\ ~hrmsResult.isNull

Records == IF Parsed THEN {i \in 1..Len(hrmsObjs) : hrmsObjs[i].kind = "data"} ELSE {}

\* where the reported masses stand in the clause text
FoundPos(i) == Len(Clause(i).text) - Len(Clause(i).dataMatch.foundMass) + 1
ExactPos(i) == FoundPos(i) - 1 - Len(Clause(i).dataMatch.exactMass)

\* text with the len characters at pos Danger-annotated with msg
AnnotatedAt(text, pos, len, msg) ==
    SubSeq(text, 1, pos - 1)
    \o highlightDanger(SubSeq(text, pos, pos + len - 1), msg)
    \o SubSeq(text, pos + len, Len(text))

\* str carries a Danger annotation with this message
HasDanger(str, msg) ==
    Includes(str, <<"<span class=danger data-tooltip=">> \o msg \o <<">">>)

HasAnyDanger(str) == Includes(str, <<"<span class=danger data-tooltip=">>)

Decimals(mass) == Len(Fraction(mass))

(***************************************************************************)
(* C1: every record parseHrmsData accepts has calcdMass equal to the sum of *)
(* the formula's exact mass and the ion adjustment (0 for the empty ion,    *)
(* minus the electron mass 0.000549 for any other ion), rounded half up to  *)
(* 5 decimals and then half up to 4 decimals.                               *)
(***************************************************************************)
C1_RawMass(i) ==
    FormulaExactMass(hrmsObjs[i].formula) + (IF hrmsObjs[i].ion = "" THEN 0 ELSE 0 - 549)

C1_CalcdMassRoundedTwice ==
    \A i \in Records :
        hrmsObjs[i].calcdMass = (((C1_RawMass(i) + 5) \div 10 + 5) \div 10) * 100

\* a record with a non-empty ion whose raw sum rounds differently in one step
\* (..46 micro: 5 decimals give ..5, 4 decimals then round up)
C1_Witness ==
    \E i \in Records :
        /\ hrmsObjs[i].ion # ""
        /\ C1_RawMass(i) % 100 \in 45..49
        /\ hrmsObjs[i].calcdMass # ((C1_RawMass(i) + 50) \div 100) * 100

(***************************************************************************)
(* C2: whatever the mode and whatever the decimal-digit and tolerance       *)
(* checks say, a record whose reported exact mass differs from calcdMass by *)
(* more than 0.0001 (rounded to 4 decimals) has an annotated output that is *)
(* Danger-annotated with the calculated value, to 4 decimals, in the        *)
(* message.                                                                 *)
(***************************************************************************)
C2_CalcMessage(i) ==
    Msg("calcErr", language) \o Fixed(hrmsObjs[i].calcdMass \div 100, 4)

C2_ConsistencyAlwaysAnnotated ==
    Rendered =>
        \A i \in Records :
            isInconsistent(Clause(i).dataMatch.exactMass, hrmsObjs[i].calcdMass)
                => HasDanger(hrmsResult.outputRich[i], C2_CalcMessage(i))

(***************************************************************************)
(* C3: in strict mode a record whose reported exact mass does not have      *)
(* exactly 4 decimals is Danger-annotated with the decimal-precision error  *)
(* on the exact mass, whatever the masses are; no other check annotates it. *)
(***************************************************************************)
C3_ExactDecimalsFirst ==
    Rendered /\ isStrict =>
        \A i \in Records :
            Decimals(Clause(i).dataMatch.exactMass) # 4
                => hrmsResult.outputRich[i] =
                       AnnotatedAt(Clause(i).text, ExactPos(i),
                                   Len(Clause(i).dataMatch.exactMass),
                                   Msg("decimalErr", language))

\* the exact mass has 5 decimals, the found mass 3, and the exact mass is not
\* the calculated one: the three later checks would all fire
C3_Witness ==
    /\ Rendered /\ isStrict
    /\ \E i \in Records :
          /\ Decimals(Clause(i).dataMatch.exactMass) = 5
          /\ Decimals(Clause(i).dataMatch.foundMass) = 3
          /\ isInconsistent(Clause(i).dataMatch.exactMass, hrmsObjs[i].calcdMass)

(***************************************************************************)
(* C4: in strict mode, for a record whose exact mass has exactly 4          *)
(* decimals: a found mass without exactly 4 decimals makes the record       *)
(* Danger-annotated with the decimal-precision error on the found mass;     *)
(* otherwise the record is Danger-annotated with the tolerance error        *)
(* exactly when |found - exact| > 0.003.                                    *)
(***************************************************************************)
C4_FoundChecks ==
    Rendered /\ isStrict =>
        \A i \in Records :
            LET exact == Clause(i).dataMatch.exactMass
                found == Clause(i).dataMatch.foundMass
                rich == hrmsResult.outputRich[i]
            IN Decimals(exact) = 4 =>
                 IF Decimals(found) # 4
                 THEN rich = AnnotatedAt(Clause(i).text, FoundPos(i), Len(found),
                                         Msg("decimalErr", language))
                 ELSE HasDanger(rich, Msg("foundErr", language))
                        <=> Abs(Number(found) - Number(exact)) > 3000

(***************************************************************************)
(* C5: in lenient mode no record is given the decimal-precision or the      *)
(* tolerance error, the exact mass a record holds after a rendering is the  *)
(* reported one coerced to 4 decimals, and the second rendering (rich,      *)
(* after plain) leaves it as the first one left it.                         *)
(***************************************************************************)
C5_LenientState ==
    ~isStrict =>
        /\ pc \in {"hrmsRenderRich", "done"} =>
             \A i \in Records :
                 /\ Decimals(hrmsObjs[i].exactMass) = 4
                 /\ Abs(Number(hrmsObjs[i].exactMass)
                        - Number(Clause(i).dataMatch.exactMass)) <= 50
                 /\ ~HasDanger(hrmsResult.outputPlain[i], Msg("decimalErr", language))
                 /\ ~HasDanger(hrmsResult.outputPlain[i], Msg("foundErr", language))
        /\ Rendered =>
             \A i \in Records :
                 /\ ~HasDanger(hrmsResult.outputRich[i], Msg("decimalErr", language))
                 /\ ~HasDanger(hrmsResult.outputRich[i], Msg("foundErr", language))

C5_SecondRenderingKeeps ==
    ~isStrict /\ pc = "hrmsRenderRich" => hrmsObjs' = hrmsObjs

C5_LenientCoercion == [](C5_LenientState) /\ [][C5_SecondRenderingKeeps]_vars

\* lenient, rendered twice, with a record whose exact mass was reported with 5
\* decimals, the fifth rounded away, and whose found mass has 3
C5_Witness ==
    /\ Rendered /\ ~isStrict
    /\ \E i \in Records :
          /\ Decimals(Clause(i).dataMatch.exactMass) = 5
          /\ Decimals(Clause(i).dataMatch.foundMass) = 3
          /\ hrmsObjs[i].exactMass # SubSeq(Clause(i).dataMatch.exactMass, 1,
                                           Len(hrmsObjs[i].exactMass))

(***************************************************************************)
(* C6: every input line the HRMS pattern does not match has an entry in     *)
(* the result of handle whose output is the whole line Danger-annotated     *)
(* with the format error.                                                   *)
(***************************************************************************)
C6_UnmatchedLineAnnotated ==
    pc = "done" =>
        \A j \in 1..Len(inputLines) :
            ~inputLines[j].matched /\ inputLines[j].raw # <<>> =>
                /\ ~hrmsResult.isNull
                /\ \E i \in 1..Len(hrmsResult.input) :
                      /\ hrmsResult.input[i] = inputLines[j].raw
                      /\ hrmsResult.outputRich[i] =
                             highlightDanger(inputLines[j].raw, Msg("formatErr", language))

(***************************************************************************)
(* C7: on a clause whose source is accepted, parseHrmsData accepts a        *)
(* counter ion only from {"", H, Na, K, Cs}: any other ion gives a Danger   *)
(* data error; the empty ion with a non-empty plus sign gives a Danger data *)
(* error; in strict mode a non-empty vocabulary ion whose separator is not  *)
(* " + " gives a Danger format error, and in lenient mode the same clause   *)
(* (its formula valid) is accepted whatever the separator.                  *)
(***************************************************************************)
C7_IonOf(i) == Or(Clause(i).ionMatch.g2, Clause(i).ionMatch.g4)
C7_PlusOf(i) == Or(Clause(i).ionMatch.g1, Clause(i).ionMatch.g3)

C7_Applies(i) ==
    /\ Clause(i).sourceMatch.matched /\ Clause(i).sourceMatch.g1 = ESI
    /\ Clause(i).ionMatch.matched
    /\ Clause(i).dataMatch.matched /\ Clause(i).dataMatch.formula \in {"CH4O", "CH2O3"}

C7_IonVocabulary ==
    Parsed =>
        \A i \in 1..Len(hrmsObjs) :
            LET ion == C7_IonOf(i)
                plus == C7_PlusOf(i)
                obj == hrmsObjs[i]
                vocabulary == {"", "H", "Na", "K", "Cs"}
                dangerOnIon(key) ==
                    obj.kind = "str"
                    /\ obj.str = Replace(Clause(i).text, Clause(i).ionMatch.all,
                                         highlightDanger(Clause(i).ionMatch.all,
                                                         Msg(key, language)))
            IN C7_Applies(i) =>
                 /\ obj.kind = "data" => obj.ion \in vocabulary
                 /\ ion \notin vocabulary => dangerOnIon("dataErr")
                 /\ ion = "" /\ plus # "" => dangerOnIon("dataErr")
                 /\ ion \in vocabulary \ {""} /\ isStrict /\ plus # " + "
                      => dangerOnIon("formatErr")
                 /\ ion \in vocabulary \ {""} /\ ~isStrict => obj.kind = "data"
                 /\ ion \in vocabulary \ {""} /\ plus = " + " => obj.kind = "data"

\* lenient mode has accepted [M+Na]+ written without the spaces
C7_Witness ==
    /\ Parsed /\ ~isStrict
    /\ \E i \in 1..Len(hrmsObjs) :
          /\ C7_Applies(i)
          /\ C7_IonOf(i) = "Na" /\ C7_PlusOf(i) = "+"
          /\ hrmsObjs[i].kind = "data"

(***************************************************************************)
(* C8: on a token of the with-coupling grammar parsePeakData returns a      *)
(* structured entry; when the number of captured non-zero coupling          *)
(* constants differs from JCount[multiplicity], peakTypeError is true and   *)
(* errMsg states the expected count; when they are equal, peakTypeError is  *)
(* false and errMsg is empty.                                               *)
(***************************************************************************)
PeakParsed == pc \in {"h1Fix", "h1Done"}

C8_Captured == Cardinality({k \in 1..Len(peakToken.Js) : peakToken.Js[k] \notin {0, NaN}})

C8_CountMismatchFlagged ==
    PeakParsed /\ peakToken.match = "withJs" =>
        /\ peakDataObj.kind = "data"
        /\ peakToken.peakType \in DOMAIN JCount =>
             IF C8_Captured # JCount[peakToken.peakType]
             THEN /\ peakDataObj.peakTypeError = "true"
                  /\ Includes(peakDataObj.errMsg,
                              <<tooltipErrors[1][3][language + 1]>>
                              \o NatToStr(JCount[peakToken.peakType])
                              \o <<tooltipErrors[1][4][language + 1]>>)
             ELSE /\ peakDataObj.peakTypeError = "false"
                  /\ peakDataObj.errMsg = <<>>

\* "t" with two captured constants, flagged and still structured
C8_Witness ==
    /\ PeakParsed /\ peakToken.match = "withJs"
    /\ peakToken.peakType = "t" /\ C8_Captured = 2
    /\ peakDataObj.kind = "data" /\ peakDataObj.peakTypeError = "true"

(***************************************************************************)
(* C9 as claimed: on a without-coupling token with a shift range "a-b" the  *)
(* entry is flagged Danger with the range-order message when a is not       *)
(* numerically less than b; a single shift is never flagged.                *)
(***************************************************************************)
C9_Applies ==
    /\ PeakParsed /\ peakToken.match = "withoutJs"
    /\ peakToken.ending \in {"H", ".", ";"}
    /\ ~(isStrict /\ peakToken.hyphen \notin validHyphen /\ peakToken.hyphen # "")

C9_FlagsLowNotLessThanHigh ==
    C9_Applies =>
        IF Len(peakToken.shift) = 2
        THEN (peakDataObj.danger = "true") <=> ~(peakToken.shift[1] < peakToken.shift[2])
        ELSE peakDataObj.danger # "true"

(***************************************************************************)
(* C9 amended: the entry is flagged Danger with the range-order message     *)
(* exactly when the first-written bound is numerically less than the        *)
(* second; a range whose first bound is greater than or equal to the second *)
(* and a single shift are not flagged, and their message is empty.          *)
(***************************************************************************)
C9_FlagsFirstLessThanSecond ==
    C9_Applies =>
        /\ peakDataObj.kind = "data"
        /\ IF Len(peakToken.shift) = 2 /\ peakToken.shift[1] < peakToken.shift[2]
           THEN /\ peakDataObj.danger = "true"
                /\ peakDataObj.errMsg = <<tooltipErrors[3][language + 1]>>
           ELSE /\ peakDataObj.danger = "false"
                /\ peakDataObj.errMsg = <<>>

\* "6.68-7.10" is flagged
C9_Witness ==
    /\ C9_Applies
    /\ peakToken.shift = <<668, 710>>
    /\ peakDataObj.danger = "true"

(***************************************************************************)
(* C10, on every entry that carries coupling constants: if any constant is  *)
(* not an integer multiple of freq/1000 then fixPeakData replaces all of    *)
(* them by their rounded values, sets the Warning and shows the original    *)
(* values in the message; if all are multiples, the constants are unchanged *)
(* and no Warning is set.                                                   *)
(***************************************************************************)
PeakFixed == pc = "h1Done"

C10_CarriesJs == peakDataObj.kind = "data" /\ peakDataObj.Js # NullJs

C10_SomeInvalid == \E k \in 1..Len(peakDataObj.Js) : peakDataObj.Js[k] % metaFreq # 0

\* each constant is the multiple of freq/1000 nearest to the original one
C10_Rounded ==
    /\ Len(fixedPeakDataObj.Js) = Len(peakDataObj.Js)
    /\ \A k \in 1..Len(peakDataObj.Js) :
          /\ fixedPeakDataObj.Js[k] % metaFreq = 0
          /\ 2 * Abs(fixedPeakDataObj.Js[k] - peakDataObj.Js[k]) <= metaFreq

C10_Outcome ==
    IF C10_SomeInvalid
    THEN /\ fixedPeakDataObj.Js # NullJs
         /\ C10_Rounded
         /\ fixedPeakDataObj.warning = "true"
         /\ Includes(fixedPeakDataObj.errMsg, JsText(peakDataObj.Js))
    ELSE /\ fixedPeakDataObj.Js = peakDataObj.Js
         /\ fixedPeakDataObj.warning # "true"

C10_RoundsWheneverInvalid == PeakFixed /\ C10_CarriesJs => C10_Outcome

(***************************************************************************)
(* C10, on the entries fixPeakData takes to the rounding at all (autoFixJ   *)
(* enabled, a multiplicity that is reported with coupling constants under   *)
(* the generalMultiplet setting, no peakTypeError from parsing): if any     *)
(* constant is not an integer multiple of freq/1000 all constants are       *)
(* rounded, the Warning is set and the message shows the original values;   *)
(* if all are multiples, the constants are unchanged and no Warning is set. *)
(***************************************************************************)
C10_Applies ==
    /\ PeakFixed /\ C10_CarriesJs
    /\ autoFixJ
    /\ isMultiplePeakWithJ(peakDataObj.peakType, ~generalMultiplet)
    /\ peakDataObj.peakTypeError # "true"

C10_RoundsWhenFixing == C10_Applies => C10_Outcome

\* "d, J = 16.1 Hz" at 700 MHz: 16.1 is 23 * 0.7, and the Warning is set
C10_WarnedMultiple ==
    /\ C10_Applies
    /\ peakDataObj.peakType = "d" /\ metaFreq = 700
    /\ peakDataObj.Js = <<16100>>
    /\ fixedPeakDataObj.Js = <<16100>>
    /\ fixedPeakDataObj.warning = "true"

(***************************************************************************)
(* C11: for every positive J with one decimal and every frequency,          *)
(* roundJ(J, freq) is an integer multiple of freq/1000, it is the multiple  *)
(* nearest to J (|roundJ(J, freq) - J| <= freq/2000), and a non-zero result *)
(* satisfies isJValid(roundJ(J, freq), freq).                               *)
(***************************************************************************)
C11_RoundJToValidMultiple ==
    pc = "rounded" =>
        /\ jRounded % jFreq = 0
        /\ 2 * Abs(jRounded - jInput) <= jFreq
        /\ jRounded # 0 => isJValid(jRounded, jFreq)

\* roundJ(15.8, 700) is 16.1 = 23 * 0.7, which isJValid(16.1, 700) rejects
C11_RoundedNotValid ==
    /\ pc = "rounded"
    /\ jInput = 15800 /\ jFreq = 700
    /\ jRounded = 16100
    /\ ~isJValid(jRounded, jFreq)

(***************************************************************************)
(* C12 as claimed: isJValid(7.6, 400) is false.                             *)
(***************************************************************************)
C12_Called == pc \in {"roundJ", "rounded"} /\ jInput = 7600 /\ jFreq = 400

C12_IsJValidFalse == C12_Called => jValid = FALSE

(***************************************************************************)
(* C12 amended: isJValid(7.6, 400) is true (7.6 is 19 * 0.4, and 1000 * 7.6 *)
(* is exactly 7600 in binary64); isJValid(7.5, 400) is false.               *)
(***************************************************************************)
C12_IsJValidTrue ==
    /\ C12_Called => jValid = TRUE
    /\ pc \in {"roundJ", "rounded"} /\ jInput = 7500 /\ jFreq = 400 => jValid = FALSE

\* isJValid(7.6, 400) has returned
C12_Witness == C12_Called /\ jValid = TRUE

(***************************************************************************)
(* C13: fixPeakData is idempotent: for every structured entry, frequency    *)
(* and setting of autoFixJ and generalMultiplet, applying fixPeakData to    *)
(* what fixPeakData returned gives the same entry again, in every field.    *)
(***************************************************************************)
C13_FixedAgain ==
    fixPeakData(fixedPeakDataObj, metaFreq, generalMultiplet, autoFixJ, language)

C13_FixPeakDataIdempotent ==
    PeakFixed /\ peakDataObj.kind = "data" => C13_FixedAgain = fixedPeakDataObj

\* a "dd" with its two constants while #generalMultiplet is unchecked: coerced
\* to "m" with the placeholder shift, and given another message the second time
C13_CoercedChangesAgain ==
    /\ PeakFixed /\ ~generalMultiplet
    /\ peakDataObj.kind = "data" /\ peakDataObj.peakType = "dd"
    /\ peakDataObj.Js = <<7200, 7500>>
    /\ fixedPeakDataObj.peakType = "m"
    /\ fixedPeakDataObj.errMsg = <<"dd", Tip(10, language)>>
    /\ C13_FixedAgain.errMsg = <<Tip(4, language)>>
    /\ \A f \in {"peak", "peakType", "Js", "danger", "warning", "peakTypeError"} :
          C13_FixedAgain[f] = fixedPeakDataObj[f]

(***************************************************************************)
(* C14: once AppComponent.handle has run for the current input text, the    *)
(* displayed output is derived only from the current text: it is the        *)
(* current text re-rendered, or it is cleared; cleared also when every      *)
(* component returns null for a non-empty text.                             *)
(***************************************************************************)
AppHandled == pc = "appDone"

C14_OutputOfCurrentText ==
    AppHandled =>
        IF hrmsResult.isNull
        THEN output = <<>>
        ELSE output = richTextFrom(inputValue(inputLines), hrmsResult, 1)

\* the text is "mp 120 C", for which every component returns null, and the
\* output still shows the rendering of an HRMS line typed before
C14_StaleOutput ==
    /\ AppHandled
    /\ inputLines = <<OtherLine(<<"mp 120 C">>)>>
    /\ hrmsResult.isNull
    /\ Includes(output, <<"<b>", "<span class=success>">>)

(***************************************************************************)
(* C15 as claimed: parsing and correcting the same peak token or HRMS       *)
(* clause under the other language, all other flags fixed, gives a result   *)
(* of the same kind (structured record or Danger string) that agrees on     *)
(* every non-message field: peak, peakType, Js, hydrogenCount, danger,      *)
(* warning, peakTypeError; source, ion, formula and the masses.             *)
(***************************************************************************)
C15_Other == IF language = English THEN Chinese ELSE English

C15_OtherParsed == parsePeakData(peakToken, isStrict, C15_Other)

C15_OtherFixed ==
    fixPeakData(C15_OtherParsed, metaFreq, generalMultiplet, autoFixJ, C15_Other)

C15_PeakFields == {"peakType", "Js", "hydrogenCount", "danger", "warning", "peakTypeError"}

C15_HrmsFields == {"source", "ion", "formula", "calcdMass", "exactMass", "foundMass"}

C15_HrmsAgree ==
    pc = "hrmsRenderPlain" =>
        \A i \in 1..Len(hrmsObjs) :
            LET other == parseHrmsData(Clause(i), isStrict, C15_Other)
            IN /\ other.kind = hrmsObjs[i].kind
               /\ other.kind = "data" => \A f \in C15_HrmsFields : other[f] = hrmsObjs[i][f]

C15_LanguageOnlyMessages ==
    /\ C15_HrmsAgree
    /\ PeakFixed =>
         /\ C15_OtherParsed.kind = peakDataObj.kind
         /\ C15_OtherFixed.kind = fixedPeakDataObj.kind
         /\ peakDataObj.kind = "data" =>
              /\ C15_OtherParsed.peak = peakDataObj.peak
              /\ C15_OtherFixed.peak = fixedPeakDataObj.peak
              /\ \A f \in C15_PeakFields :
                    /\ C15_OtherParsed[f] = peakDataObj[f]
                    /\ C15_OtherFixed[f] = fixedPeakDataObj[f]

(***************************************************************************)
(* C15 amended: the same, except that in strict mode an entry whose shift   *)
(* range is written with an invalid hyphen holds in its peak field the      *)
(* shift text Danger-highlighted with the invalid-format message of the     *)
(* language: there the two peak fields are the highlight of the same shift  *)
(* text and differ in that message only.                                    *)
(***************************************************************************)
C15_SamePeak(a, la, b, lb) ==
    \/ a = b
    \/ /\ a.form = "danger" /\ b.form = "danger"
       /\ \E text \in {<<"shift:", peakToken.data>>} :
             /\ a.v = highlightDanger(text, <<Tip(1, la)>>)
             /\ b.v = highlightDanger(text, <<Tip(1, lb)>>)

C15_LanguageOnlyMessageText ==
    /\ C15_HrmsAgree
    /\ PeakFixed =>
         /\ C15_OtherParsed.kind = peakDataObj.kind
         /\ C15_OtherFixed.kind = fixedPeakDataObj.kind
         /\ peakDataObj.kind = "data" =>
              /\ C15_SamePeak(peakDataObj.peak, language, C15_OtherParsed.peak, C15_Other)
              /\ C15_SamePeak(fixedPeakDataObj.peak, language, C15_OtherFixed.peak, C15_Other)
              /\ \A f \in C15_PeakFields :
                    /\ C15_OtherParsed[f] = peakDataObj[f]
                    /\ C15_OtherFixed[f] = fixedPeakDataObj[f]

\* Chinese, strict, a "d" written "7.10  -  6.68": the peak field carries the
\* message, and the messages of the two languages differ
C15_Witness ==
    /\ PeakFixed /\ isStrict /\ language = Chinese
    /\ peakToken.hyphen = "  -  " /\ peakToken.peakType = "d"
    /\ fixedPeakDataObj.peak.form = "danger"
    /\ fixedPeakDataObj.errMsg # C15_OtherFixed.errMsg

(***************************************************************************)
(* C16: in an input of several lines, the plain and the annotated output of *)
(* every HRMS record are what the record gets when it is handled on its     *)
(* own, whatever the other lines hold; and every malformed line (one the    *)
(* HRMS pattern does not match, or one parseHrmsData rejects) has an entry  *)
(* of its own in the result of handle whose annotated output carries a      *)
(* Danger annotation, so that handle does not return null for it.           *)
(***************************************************************************)
C16_OnItsOwn(i) ==
    \E up1 \in BOOLEAN, up2 \in BOOLEAN :
        LET rec == parseHrmsData(Clause(i), isStrict, language)
            plain == renderOne(rec, FALSE, isStrict, language, up1)
            rich == renderOne(plain.hrms, TRUE, isStrict, language, up2)
        IN /\ hrmsResult.input[i] = Clause(i).text
           /\ hrmsResult.outputPlain[i] = plain.out
           /\ hrmsResult.outputRich[i] = rich.out

C16_SiblingsNotBlocked ==
    Rendered => \A i \in 1..Len(validHrmsData(inputLines)) : C16_OnItsOwn(i)

\* the entries of the result that belong to line j of the input
C16_EntriesOf(j) ==
    IF hrmsResult.isNull THEN {}
    ELSE {i \in 1..Len(hrmsResult.input) :
             /\ inputLines[j].matched
             /\ hrmsResult.input[i] = inputLines[j].text}

C16_Malformed(j) ==
    /\ inputLines[j].raw # <<>>
    /\ \/ ~inputLines[j].matched
       \/ parseHrmsData(inputLines[j], isStrict, language).kind = "str"

C16_MalformedAnnotated ==
    pc = "done" =>
        \A j \in 1..Len(inputLines) :
            C16_Malformed(j) =>
                \E i \in C16_EntriesOf(j) : HasAnyDanger(hrmsResult.outputRich[i])

C16_MalformedNeverBlocks == C16_SiblingsNotBlocked /\ C16_MalformedAnnotated

\* "mp 120 C" beside a valid HRMS line: the valid line is rendered, and no entry
\* of the result belongs to the other line
C16_MalformedDropped ==
    /\ Rendered
    /\ inputLines = <<GoodLine, OtherLine(<<"mp 120 C">>)>>
    /\ Len(hrmsResult.input) = 1
    /\ C16_OnItsOwn(1)

(***************************************************************************)
(* C17 as claimed: on an entry whose multiplicity requires coupling         *)
(* constants under the generalMultiplet setting and whose Js is absent,     *)
(* fixPeakData sets peakTypeError with the "should have coupling constants" *)
(* message if and only if autoFixJ is enabled; with autoFixJ disabled an    *)
(* entry of such a multiplicity is returned with no flag added and its      *)
(* coupling constants are not rounded.                                      *)
(***************************************************************************)
C17_Applies ==
    /\ PeakFixed /\ peakDataObj.kind = "data"
    /\ isMultiplePeakWithJ(peakDataObj.peakType, ~generalMultiplet)

C17_NeedsJFlagged ==
    /\ fixedPeakDataObj.peakTypeError = "true"
    /\ fixedPeakDataObj.errMsg = <<peakDataObj.peakType, Tip(8, language)>>

C17_GatedNoFlagAdded ==
    C17_Applies =>
        /\ peakDataObj.Js = NullJs => (C17_NeedsJFlagged <=> autoFixJ)
        /\ ~autoFixJ => fixedPeakDataObj = peakDataObj

(***************************************************************************)
(* C17 amended: on such an entry peakTypeError with the "should have        *)
(* coupling constants" message is set if and only if autoFixJ is enabled;   *)
(* with autoFixJ disabled an entry of such a multiplicity keeps its Js,     *)
(* peakTypeError and warning, and is returned unchanged unless its shift is *)
(* a range, in which case the danger flag and the "should have only one     *)
(* chemical shift" message are set, as they are whatever autoFixJ is.       *)
(***************************************************************************)
C17_RangeFlagged ==
    [peakDataObj EXCEPT !.danger = "true",
                        !.errMsg = <<peakDataObj.peakType, Tip(6, language)>>]

C17_GatedByAutoFixJ ==
    C17_Applies =>
        /\ peakDataObj.Js = NullJs => (C17_NeedsJFlagged <=> autoFixJ)
        /\ ~peakIsString(peakDataObj.peak) => fixedPeakDataObj.danger = "true"
        /\ ~autoFixJ =>
             fixedPeakDataObj = IF peakIsString(peakDataObj.peak) THEN peakDataObj
                                ELSE C17_RangeFlagged

\* autoFixJ enabled, "7.15 (d, 1H)": flagged for its missing constants
C17_Witness ==
    /\ C17_Applies /\ autoFixJ
    /\ peakDataObj.peakType = "d" /\ peakDataObj.Js = NullJs
    /\ peakDataObj.peakTypeError # "true"
    /\ C17_NeedsJFlagged

(***************************************************************************)
(* C18: an entry whose multiplicity is recognized, is neither "m" nor a     *)
(* singlet and does not require coupling constants under the                *)
(* generalMultiplet setting is returned with peakType "m", the placeholder  *)
(* for its shift, Js = null, danger = true and a message that names the     *)
(* original multiplicity; no other entry has its peakType or its shift      *)
(* changed by fixPeakData.                                                  *)
(***************************************************************************)
C18_Coerced ==
    /\ PeakFixed /\ peakDataObj.kind = "data"
    /\ isPeak(peakDataObj.peakType)
    /\ peakDataObj.peakType # "m"
    /\ ~isSinglePeak(peakDataObj.peakType)
    /\ ~isMultiplePeakWithJ(peakDataObj.peakType, ~generalMultiplet)

C18_CoercionToMultiplet ==
    PeakFixed /\ peakDataObj.kind = "data" =>
        IF C18_Coerced
        THEN /\ fixedPeakDataObj.peakType = "m"
             /\ fixedPeakDataObj.peak = [form |-> "PEAKRANGE", v |-> <<>>]
             /\ fixedPeakDataObj.Js = NullJs
             /\ fixedPeakDataObj.danger = "true"
             /\ fixedPeakDataObj.errMsg = <<peakDataObj.peakType, Tip(10, language)>>
        ELSE /\ fixedPeakDataObj.peakType = peakDataObj.peakType
             /\ fixedPeakDataObj.peak = peakDataObj.peak

\* "7.10-6.68 (dd, 1H)" while #generalMultiplet is unchecked
C18_Witness ==
    /\ C18_Coerced
    /\ peakDataObj.peakType = "dd"
    /\ peakDataObj.peak = RangePeak(710, 668)
    /\ fixedPeakDataObj.peakType = "m"
    /\ fixedPeakDataObj.peak.form = peakRangePlaceholder

(***************************************************************************)
(* C19: for every record that fails the decimal-precision, the tolerance   *)
(* or the consistency check, the plain replacement string is the clause    *)
(* text unchanged and the annotated replacement string, and only it,       *)
(* carries the Danger annotation; input, outputPlain and outputRich have   *)
(* the same length and entry i of each belongs to clause i.                *)
(***************************************************************************)
\* lines 137-155: the strict checks reject record i
C19_FailsStrict(i) ==
    /\ isStrict
    /\ \/ Decimals(Clause(i).dataMatch.exactMass) # requiredDecimal
       \/ Decimals(Clause(i).dataMatch.foundMass) # requiredDecimal
       \/ Abs(Number(Clause(i).dataMatch.foundMass)
              - Number(Clause(i).dataMatch.exactMass)) > maxFoundError

\* lines 159-165: the consistency check rejects record i (on the exact mass
\* the record holds when the check runs)
C19_FailsConsistency(i) ==
    /\ ~C19_FailsStrict(i)
    /\ isInconsistent(hrmsObjs[i].exactMass, hrmsObjs[i].calcdMass)

C19_Aligned ==
    /\ Len(hrmsResult.input) = Len(hrmsObjs)
    /\ Len(hrmsResult.outputPlain) = Len(hrmsObjs)
    /\ Len(hrmsResult.outputRich) = Len(hrmsObjs)
    /\ \A i \in 1..Len(hrmsObjs) : hrmsResult.input[i] = Clause(i).text

\* the part about the plain string and the alignment
C19_PlainUntouched ==
    Rendered =>
        /\ C19_Aligned
        /\ \A i \in Records :
              C19_FailsStrict(i) \/ C19_FailsConsistency(i)
                  => /\ hrmsResult.outputPlain[i] = Clause(i).text
                     /\ ~HasAnyDanger(hrmsResult.outputPlain[i])

C19_OnlyRichAnnotated ==
    Rendered =>
        /\ C19_Aligned
        /\ \A i \in Records :
              C19_FailsStrict(i) \/ C19_FailsConsistency(i)
                  => /\ hrmsResult.outputPlain[i] = Clause(i).text
                     /\ ~HasAnyDanger(hrmsResult.outputPlain[i])
                     /\ HasAnyDanger(hrmsResult.outputRich[i])

\* a record that fails the consistency check and whose annotated string is
\* the clause text without any annotation
C19_FailedNotAnnotated ==
    /\ Rendered
    /\ \E i \in Records :
          /\ C19_FailsConsistency(i)
          /\ hrmsResult.outputRich[i] = Clause(i).text

(***************************************************************************)
(* C20: scroll synchronization has no feedback loop and does not get       *)
(* stuck: the scroll event that a handler raises on the other pane by      *)
(* assigning its scrollTop never writes back to the first pane; once the   *)
(* queued scroll events are dispatched both guard flags are false; and     *)
(* every scroll of the user, of either pane, is mirrored to the other      *)
(* pane.                                                                   *)
(***************************************************************************)
\* a dispatched echo leaves the scrollTop of the pane it came from alone
C20_EchoStep ==
    /\ outputScroll /\ "echo" \in outputScrollEvent => inputScrollTop' = inputScrollTop
    /\ inputScroll /\ "echo" \in inputScrollEvent => outputScrollTop' = outputScrollTop

C20_EchoNeverWritesBack == [][C20_EchoStep]_vars

\* an echo is queued on a pane only while the guard flag of that pane is set
C20_EchoGuarded ==
    /\ "echo" \in outputScrollEvent => leftScrollFlag
    /\ "echo" \in inputScrollEvent => rightScrollFlag

\* no scroll event is queued
C20_Settled == inputScrollEvent = {} /\ outputScrollEvent = {}

C20_FlagsClear == C20_Settled => ~leftScrollFlag /\ ~rightScrollFlag

\* the handler of a scroll event that only the user raised puts the other
\* pane at the same percentage
C20_UserStep ==
    /\ outputScroll /\ outputScrollEvent = {"user"}
         => inputScrollTop' = clamp(mirrored(outputScrollTop, outputScrollHeight,
                                             inputScrollHeight), inputScrollHeight)
    /\ inputScroll /\ inputScrollEvent = {"user"}
         => outputScrollTop' = clamp(mirrored(inputScrollTop, inputScrollHeight,
                                              outputScrollHeight), outputScrollHeight)

C20_UserScrollMirrored == [][C20_UserStep]_vars

C20_NoFeedbackNotStuck ==
    C20_EchoNeverWritesBack /\ []C20_FlagsClear /\ C20_UserScrollMirrored

\* no event is queued and a guard flag is still set: the assignment of the
\* handler did not move the other pane, so no echo came to clear the flag
C20_FlagStuck ==
    /\ pc = "scroll"
    /\ C20_Settled
    /\ leftScrollFlag \/ rightScrollFlag

\* every scroll event has been handled, both flags are clear, both panes can
\* scroll, and neither pane is where the position of the other one maps to:
\* the last scroll of the user was not mirrored
C20_ScrollSwallowed ==
    /\ pc = "scroll"
    /\ C20_Settled
    /\ ~leftScrollFlag /\ ~rightScrollFlag
    /\ maxScrollTop(inputScrollHeight) > 0 /\ maxScrollTop(outputScrollHeight) > 0
    /\ outputScrollTop # clamp(mirrored(inputScrollTop, inputScrollHeight,
                                        outputScrollHeight), outputScrollHeight)
    /\ inputScrollTop # clamp(mirrored(outputScrollTop, outputScrollHeight,
                                       inputScrollHeight), inputScrollHeight)


====
